---- MODULE Spec2Model ----
(***************************************************************************)
(* Synthetic e-commerce event generator (Home.py) and the metric engine    *)
(* of the advanced dashboard (pages/2_Advanced_Dashboard.py).              *)
(*                                                                         *)
(* The generator draws every random value from the process-wide `random`   *)
(* and `numpy.random` streams, which generate_sample_data seeds before     *)
(* constructing the generator.  A seeded stream is a fixed sequence of     *)
(* values: the model keeps it as a tape chosen once (one tape per seed)    *)
(* and a cursor that every draw advances.  Times are seconds since         *)
(* start_date 00:00:00, prices are cents.                                  *)
(***************************************************************************)
EXTENDS Integers, Sequences, FiniteSets, TLC

\* ---------------------------------------------------------------- bounds
MaxUsers == 2          \* num_users ranges over 0..MaxUsers
TapeLen == 5           \* period of the tape of the `random` stream
ItemsPerCategory == 1  \* product archetypes per category (6 in the source)
RfmUsers == 3          \* users in the logs handed to calculate_rfm_scores
ClusterUsers == 5      \* users in the logs handed to perform_behavioral_clustering

\* A draw is a level of the unit interval: 0 is the lowest outcome of the
\* call that consumes it, MaxLevel the highest.
Levels == {0, 1}
MaxLevel == CHOOSE l \in Levels : \A m \in Levels : m <= l
\* numpy uniform draws of np.random.choice, in percent
NpLevels == {5, 30, 75, 95}
\* window lengths passed to the constructor (every caller passes 180)
NumDaysChoices == {180}
\* window lengths the constructor accepts: the callers' and a one-month window
WindowChoices == {30, 180}
\* populations passed to the constructor, a negative one included
NumUsersChoices == (0 - 1)..MaxUsers
\* what one user contributes to a log handed to the metric engine: nothing, a
\* session with a view, or a session with a view and n purchases of the given
\* quantity on the given day
PurchaseCounts == {1, 2, 3}
PurchaseDays == {0, 1, 2}
Quantities == {1, 2}
Absent == [kind |-> "absent", n |-> 0, day |-> 0, quantity |-> 0]
Browser == [kind |-> "browser", n |-> 0, day |-> 0, quantity |-> 0]
Buyers == [kind : {"buyer"}, n : PurchaseCounts, day : PurchaseDays, quantity : Quantities]
RfmProfiles == {Absent, Browser} \cup Buyers
ClusterProfiles == {Absent, Browser, [kind |-> "buyer", n |-> 1, day |-> 0, quantity |-> 1]}
\* datetime.now() at the time of scoring
NowChoices == {200 * 86400 + 12 * 3600}

\* ------------------------------------------------------- program constants
Categories == <<"Electronics", "Clothing">>
user_segments == <<"High Value", "Regular", "Occasional", "New">>
SegmentCdf == <<10, 60, 90, 100>>
SessionCap == 20
NumBins == 5
n_clusters == 4
PriceLo == 1000
PriceHi == 50000
Minute == 60
Hour == 3600
Day == 86400

None == <<>>
Some(v) == <<v>>

VARIABLES
    num_users, num_days, products,          \* EcommerceDataGenerator fields
    users,                                  \* generate_users: the list built so far
    events,                                 \* generate_user_events: the log built so far
    pc,                                     \* position in generate_sample_data
    tape, rng,                              \* `random` stream and its cursor
    np_tape, np_rng,                        \* `numpy.random` stream and its cursor
    user_idx,                               \* index of `user` in `for user in users`
    sessions_per_month, avg_session_length, purchase_probability,
    days_active, total_sessions, session_num,
    calls,                                  \* generate_sample_data calls made so far
    previous,                               \* the log the previous call returned
    rfm,                                    \* what calculate_rfm_scores came to
    user_behavior,                          \* what perform_behavioral_clustering came to
    selection,                              \* the sidebar filters of a dashboard run
    conversion_metrics,                     \* what calculate_conversion_metrics came to
    funnel_data                             \* the funnel of the basic dashboard

dashboard == <<selection, conversion_metrics, funnel_data>>
metrics == <<rfm, user_behavior, dashboard>>

runs == <<calls, previous>>
gen == <<num_users, num_days, products>>
streams == <<tape, np_tape>>
userLocals == <<sessions_per_month, avg_session_length, purchase_probability,
                days_active, total_sessions>>
vars == <<num_users, num_days, products, users, events, pc, tape, rng, np_tape,
          np_rng, user_idx, sessions_per_month, avg_session_length,
          purchase_probability, days_active, total_sessions, session_num,
          calls, previous, rfm, user_behavior, selection, conversion_metrics,
          funnel_data>>

\* ------------------------------------------------------------ random source
\* the i-th value (from 0) the `random` stream yields from the cursor on
Draw(i) == tape[((rng + i) % TapeLen) + 1]
Advance(k) == (rng + k) % TapeLen

\* the stream is left where the previous call stopped
Reseed_kept(cursor) == cursor
\* random.seed(42): whatever the cursor was, the stream restarts
Reseed(cursor) == 0
\* np.random.seed(42)
NpReseed(cursor) == 0

\* random.randint(a, b): an integer of a..b
randint(a, b, l) == a + ((b - a) * l) \div MaxLevel
\* random._randbelow(n): an integer of 0..n-1
randbelow(n, l) == ((n - 1) * l) \div MaxLevel
\* random.choice(seq)
choice(seq, l) == seq[randbelow(Len(seq), l) + 1]
\* round(random.uniform(10, 500), 2), in cents
uniform_price(l) == PriceLo + ((PriceHi - PriceLo) * l) \div MaxLevel
\* random.random() < probability, probability in percent
random_below(l, pct) == l * 100 < pct * MaxLevel

\* a gap that may be zero minutes
Gap_zero(lo, hi, l) == randint(lo - 1, hi, l) * Minute
\* timedelta(minutes=random.randint(lo, hi)), in seconds
Gap(lo, hi, l) == randint(lo, hi, l) * Minute

Replace(s, j, v) == [s EXCEPT ![j] = v]

\* random.sample(population, k): k positions drawn without replacement from a
\* shrinking pool, the vacancy filled by the pool's last non-selected item;
\* consumes the draws first, first+1, ..., first+k-1
RECURSIVE sample_from(_, _, _)
sample_from(pool, k, first) ==
    IF k = 0 THEN <<>>
    ELSE LET n == Len(pool)
             j == randbelow(n, Draw(first)) + 1
         IN  <<pool[j]>> \o sample_from(SubSeq(Replace(pool, j, pool[n]), 1, n - 1),
                                         k - 1, first + 1)
\* the sample is taken from the whole catalog instead of the population
sample_catalog(population, k, first) == sample_from(products, k, first)
sample(population, k, first) == sample_from(population, k, first)

Min(a, b) == IF a <= b THEN a ELSE b

\* ------------------------------------------------------------------ catalog
NumProducts == Len(Categories) * ItemsPerCategory
\* generate_products: one product per (category, archetype), ids P0001.. in
\* catalog order, price drawn per product
generate_products(first) ==
    [i \in 1..NumProducts |->
        [product_id |-> <<"P", i>>,
         category |-> Categories[((i - 1) \div ItemsPerCategory) + 1],
         price |-> uniform_price(tape[((first + i - 1) % TapeLen) + 1])]]

\* ---------------------------------------------------------------- segments
SegmentOf(u) ==
    user_segments[CHOOSE i \in 1..4 :
        /\ u < SegmentCdf[i]
        /\ \A j \in 1..(i - 1) : u >= SegmentCdf[j]]

SpmRange(segment) ==
    CASE segment = "High Value" -> <<4, 10>>
      [] segment = "Regular" -> <<2, 6>>
      [] segment = "Occasional" -> <<1, 3>>
      [] OTHER -> <<1, 2>>
LenRange(segment) ==
    CASE segment = "High Value" -> <<3, 8>>
      [] segment = "Regular" -> <<2, 5>>
      [] segment = "Occasional" -> <<1, 3>>
      [] OTHER -> <<1, 2>>
ProbPct(segment) ==
    CASE segment = "High Value" -> 30
      [] segment = "Regular" -> 15
      [] segment = "Occasional" -> 8
      [] OTHER -> 5

\* days_active / 30 * sessions_per_month rounded to the nearest integer
Rounded(days, spm) == (2 * days * spm + 30) \div 60
\* the session count without its cap
TotalSessions_uncapped(days, spm) == (days * spm) \div 30
\* the session count rounded instead of truncated
TotalSessions_rounded(days, spm) == Min(Rounded(days, spm), SessionCap)
\* int((days_active / 30) * sessions_per_month), capped
TotalSessions(days, spm) == Min((days * spm) \div 30, SessionCap)

\* -------------------------------------------------------------------- Init
\* generate_sample_data up to and including the constructor: both streams
\* seeded, fields set, catalog generated (one price draw per product)
NotComputed == [kind |-> "none", rows |-> <<>>]

\* no dashboard has run
NoDashboard ==
    /\ selection = NotComputed
    /\ conversion_metrics = NotComputed
    /\ funnel_data = NotComputed

InitWith(windows) ==
    /\ rfm = NotComputed
    /\ user_behavior = NotComputed
    /\ NoDashboard
    /\ num_users \in NumUsersChoices
    /\ num_days \in windows
    /\ tape \in [1..TapeLen -> Levels]
    /\ np_tape \in [1..num_users -> NpLevels]
    /\ products = generate_products(Reseed(0))
    /\ rng = (Reseed(0) + NumProducts) % TapeLen
    /\ np_rng = NpReseed(0)
    /\ calls = 1
    /\ previous = <<>>
    /\ users = <<>>
    /\ events = <<>>
    /\ pc = "generate_users"
    /\ user_idx = 0
    /\ sessions_per_month = 0
    /\ avg_session_length = 0
    /\ purchase_probability = 0
    /\ days_active = 0
    /\ total_sessions = 0
    /\ session_num = 0

Init == InitWith(NumDaysChoices)

\* ---------------------------------------------------------- generate_users
\* one iteration of `for i in range(self.num_users)`
GenerateUser ==
    /\ pc = "generate_users"
    /\ Len(users) < num_users
    /\ LET i == Len(users)
           segment == SegmentOf(np_tape[np_rng + 1])
           reg == IF segment = "New" THEN randint(150, 180, Draw(0))
                                     ELSE randint(0, 100, Draw(0))
       IN  users' = Append(users,
                [user_id |-> <<"U", i + 1>>,
                 registration_date |-> reg * Day,
                 age |-> randint(18, 65, Draw(1)),
                 gender |-> choice(<<"M", "F">>, Draw(2)),
                 segment |-> segment])
    /\ rng' = Advance(3)
    /\ np_rng' = np_rng + 1
    /\ UNCHANGED <<metrics, runs, gen, streams, events, pc, user_idx, userLocals, session_num>>

\* `return users`, then generate_user_events starts with `events = []`
ReturnUsers ==
    /\ pc = "generate_users"
    /\ Len(users) >= num_users
    /\ events' = <<>>
    /\ user_idx' = 1
    /\ pc' = "user"
    /\ UNCHANGED <<metrics, runs, gen, streams, users, rng, np_rng, userLocals, session_num>>

\* ---------------------------------------------------- generate_user_events
\* the event ordinal restarts with every session
Event_by_session(log, uid, sid, type, t, product, quantity) ==
    [event_id |-> <<"E", Len(log) + 2 - sid[2]>>,
     user_id |-> uid,
     session_id |-> sid,
     event_type |-> type,
     timestamp |-> t,
     product_id |-> IF product = None THEN None ELSE Some(product[1].product_id),
     category |-> IF product = None THEN None ELSE Some(product[1].category),
     price |-> IF product = None THEN None ELSE Some(product[1].price),
     quantity |-> quantity]
\* a product_view records a quantity of 1
Event_view_quantity(log, uid, sid, type, t, product, quantity) ==
    [event_id |-> <<"E", Len(log) + 1>>,
     user_id |-> uid,
     session_id |-> sid,
     event_type |-> type,
     timestamp |-> t,
     product_id |-> IF product = None THEN None ELSE Some(product[1].product_id),
     category |-> IF product = None THEN None ELSE Some(product[1].category),
     price |-> IF product = None THEN None ELSE Some(product[1].price),
     quantity |-> IF type = "product_view" THEN Some(1) ELSE quantity]
\* the dict appended to `events`
Event(log, uid, sid, type, t, product, quantity) ==
    [event_id |-> <<"E", Len(log) + 1>>,
     user_id |-> uid,
     session_id |-> sid,
     event_type |-> type,
     timestamp |-> t,
     product_id |-> IF product = None THEN None ELSE Some(product[1].product_id),
     category |-> IF product = None THEN None ELSE Some(product[1].category),
     price |-> IF product = None THEN None ELSE Some(product[1].price),
     quantity |-> quantity]

\* The state of a running session: the log, current_time, the number of draws
\* consumed since the session began (at), the ids, session_products.
\* `for _ in range(num_products_viewed)`: a product, a gap, a product_view
RECURSIVE Browse(_, _)
Browse(st, n) ==
    IF n = 0 THEN st
    ELSE LET product == choice(products, Draw(st.at))
             t == st.time + Gap(1, 5, Draw(st.at + 1))
         IN  Browse([st EXCEPT
                        !.log = Append(@, Event(@, st.uid, st.sid, "product_view", t,
                                                Some(product), None)),
                        !.time = t,
                        !.at = @ + 2,
                        !.session_products = Append(@, product)],
                    n - 1)

\* `for product in cart_products` and `for product in purchase_products`: a
\* gap of 1..gap_hi minutes, a quantity of 1..qty_hi, an event
RECURSIVE EmitItems(_, _, _, _, _)
EmitItems(st, type, items, gap_hi, qty_hi) ==
    IF items = <<>> THEN st
    ELSE LET t == st.time + Gap(1, gap_hi, Draw(st.at))
             quantity == randint(1, qty_hi, Draw(st.at + 1))
         IN  EmitItems([st EXCEPT
                           !.log = Append(@, Event(@, st.uid, st.sid, type, t,
                                                   Some(Head(items)), Some(quantity))),
                           !.time = t,
                           !.at = @ + 2],
                       type, Tail(items), gap_hi, qty_hi)

\* `for product in cart_products`, the cart being the given sample
AddToCart(st, cart_products) ==
    [EmitItems([st EXCEPT !.at = @ + 1 + Len(cart_products)], "add_to_cart",
               cart_products, 3, 3)
        EXCEPT !.cart_products = cart_products]
\* cart_products = random.sample(session_products, min(len(...), randint(1, 2)))
SampleCart(st) ==
    AddToCart(st, sample(st.session_products,
                         Min(Len(st.session_products), randint(1, 2, Draw(st.at))),
                         st.at + 1))
\* the purchased products are drawn but no purchase event is emitted
Purchase_unrecorded(st, purchase_products) ==
    [st EXCEPT !.at = @ + 2 + 3 * Len(purchase_products)]
\* `for product in purchase_products`, the purchase being the given sample
Purchase(st, purchase_products) ==
    EmitItems([st EXCEPT !.at = @ + 2 + Len(purchase_products)], "purchase",
              purchase_products, 2, 2)
\* `if random.random() < purchase_probability and cart_products:`
PurchaseDecision(st, probability) ==
    IF random_below(Draw(st.at), probability) /\ st.cart_products # <<>>
      THEN Purchase(st, sample(st.cart_products,
                               randint(1, Len(st.cart_products), Draw(st.at + 1)),
                               st.at + 2))
      ELSE [st EXCEPT !.at = @ + 1]
\* `if session_products:`
CartAndPurchase(st, probability) ==
    IF st.session_products # <<>>
      THEN PurchaseDecision(SampleCart(st), probability)
      ELSE st

\* the session id is derived from the user: a user's sessions share it
SessionStart_per_user(log, user, days) ==
    LET sid == <<"S", user.user_id[2]>>
        session_date == user.registration_date + randint(0, days, Draw(0)) * Day
        session_start == session_date + randint(8, 22, Draw(1)) * Hour
                             + randint(0, 59, Draw(2)) * Minute
                             + randint(0, 59, Draw(3))
    IN  [log |-> Append(log, Event(log, user.user_id, sid, "session_start",
                                    session_start, None, None)),
         time |-> session_start,
         at |-> 4,
         uid |-> user.user_id,
         sid |-> sid,
         session_products |-> <<>>,
         cart_products |-> <<>>]
\* sessions may start in the last hour of the day
SessionStart_late(log, user, days) ==
    LET sid == <<"S", Len(log) + 1>>
        session_date == user.registration_date + randint(0, days, Draw(0)) * Day
        session_start == session_date + randint(8, 23, Draw(1)) * Hour
                             + randint(0, 59, Draw(2)) * Minute
                             + randint(0, 59, Draw(3))
    IN  [log |-> Append(log, Event(log, user.user_id, sid, "session_start",
                                    session_start, None, None)),
         time |-> session_start,
         at |-> 4,
         uid |-> user.user_id,
         sid |-> sid,
         session_products |-> <<>>,
         cart_products |-> <<>>]
\* the session date may be the day after end_date
SessionStart_beyond(log, user, days) ==
    LET sid == <<"S", Len(log) + 1>>
        session_date == user.registration_date + randint(0, days + 1, Draw(0)) * Day
        session_start == session_date + randint(8, 22, Draw(1)) * Hour
                             + randint(0, 59, Draw(2)) * Minute
                             + randint(0, 59, Draw(3))
    IN  [log |-> Append(log, Event(log, user.user_id, sid, "session_start",
                                    session_start, None, None)),
         time |-> session_start,
         at |-> 4,
         uid |-> user.user_id,
         sid |-> sid,
         session_products |-> <<>>,
         cart_products |-> <<>>]
\* session date, session id, start time and the session_start event
SessionStart(log, user, days) ==
    LET sid == <<"S", Len(log) + 1>>
        session_date == user.registration_date + randint(0, days, Draw(0)) * Day
        session_start == session_date + randint(8, 22, Draw(1)) * Hour
                             + randint(0, 59, Draw(2)) * Minute
                             + randint(0, 59, Draw(3))
    IN  [log |-> Append(log, Event(log, user.user_id, sid, "session_start",
                                    session_start, None, None)),
         time |-> session_start,
         at |-> 4,
         uid |-> user.user_id,
         sid |-> sid,
         session_products |-> <<>>,
         cart_products |-> <<>>]
\* num_products_viewed = random.randint(1, avg_session_length), then the views
BrowseProducts(st, length) ==
    Browse([st EXCEPT !.at = @ + 1], randint(1, length, Draw(st.at)))
\* the session_end event
SessionEnd(st) ==
    [st EXCEPT
        !.log = Append(@, Event(@, st.uid, st.sid, "session_end",
                                st.time + Gap(1, 5, Draw(st.at)), None, None)),
        !.time = @ + Gap(1, 5, Draw(st.at)),
        !.at = @ + 1]

\* one iteration of `for session_num in range(total_sessions)`
Session(log, user, days, length, probability) ==
    SessionEnd(CartAndPurchase(BrowseProducts(SessionStart(log, user, days), length),
                               probability))

\* head of `for user in users`: the segment's parameters are drawn, then a
\* user with no active day is skipped
NextUser ==
    /\ pc = "user"
    /\ user_idx <= Len(users)
    /\ LET user == users[user_idx]
           spm == randint(SpmRange(user.segment)[1], SpmRange(user.segment)[2], Draw(0))
           len == randint(LenRange(user.segment)[1], LenRange(user.segment)[2], Draw(1))
           days == num_days - user.registration_date \div Day
       IN  /\ sessions_per_month' = spm
           /\ avg_session_length' = len
           /\ purchase_probability' = ProbPct(user.segment)
           /\ days_active' = days
           /\ IF days <= 0
                THEN /\ user_idx' = user_idx + 1
                     /\ UNCHANGED <<total_sessions, session_num, pc>>
                ELSE /\ total_sessions' = TotalSessions(days, spm)
                     /\ session_num' = 0
                     /\ pc' = "session"
                     /\ UNCHANGED user_idx
    /\ rng' = Advance(2)
    /\ UNCHANGED <<metrics, runs, gen, streams, users, events, np_rng>>

\* `return events`
ReturnEvents ==
    /\ pc = "user"
    /\ user_idx > Len(users)
    /\ pc' = "done"
    /\ UNCHANGED <<metrics, runs, gen, streams, users, events, rng, np_rng, user_idx, userLocals,
                   session_num>>

\* the session's events are put in front of the log instead of at its end
GenerateSession_prepending ==
    /\ pc = "session"
    /\ session_num < total_sessions
    /\ \E ended \in {Session(events, users[user_idx], days_active, avg_session_length,
                              purchase_probability)} :
           /\ events' = SubSeq(ended.log, Len(events) + 1, Len(ended.log)) \o events
           /\ rng' = Advance(ended.at)
    /\ session_num' = session_num + 1
    /\ UNCHANGED <<metrics, runs, gen, streams, users, pc, np_rng, user_idx, userLocals>>
\* one session of the current user, from its session_start to its session_end
GenerateSession ==
    /\ pc = "session"
    /\ session_num < total_sessions
    /\ \E ended \in {Session(events, users[user_idx], days_active, avg_session_length,
                              purchase_probability)} :
           /\ events' = ended.log
           /\ rng' = Advance(ended.at)
    /\ session_num' = session_num + 1
    /\ UNCHANGED <<metrics, runs, gen, streams, users, pc, np_rng, user_idx, userLocals>>

\* the user's sessions are exhausted: on to the next user
UserDone ==
    /\ pc = "session"
    /\ session_num >= total_sessions
    /\ user_idx' = user_idx + 1
    /\ pc' = "user"
    /\ UNCHANGED <<metrics, runs, gen, streams, users, events, rng, np_rng, userLocals,
                   session_num>>

\* generate_sample_data after generate_user_events returned: the lists become
\* DataFrames and the date columns are converted.  A DataFrame built from an
\* empty list has no column, so selecting 'registration_date' or 'timestamp'
\* raises KeyError.
ToDataFrames ==
    /\ pc = "done"
    /\ pc' = IF users = <<>> \/ events = <<>> THEN "KeyError" ELSE "loaded"
    /\ UNCHANGED <<metrics, runs, gen, streams, users, events, rng, np_rng, user_idx,
                   userLocals, session_num>>

Next ==
    \/ GenerateUser
    \/ ReturnUsers
    \/ NextUser
    \/ ReturnEvents
    \/ GenerateSession
    \/ UserDone
    \/ ToDataFrames

Spec == Init /\ [][Next]_vars

\* the generator constructed with any of the window lengths
InitWindow == InitWith(WindowChoices)
SpecWindow == InitWindow /\ [][Next]_vars

\* generate_sample_data is called a second time with the same arguments (each
\* page calls it from its own load_data): both streams are seeded again, a new
\* generator is constructed, and the first call's log stays with its caller
CallAgain ==
    /\ pc = "done"
    /\ calls < 2
    /\ calls' = calls + 1
    /\ previous' = events
    /\ products' = generate_products(Reseed(rng))
    /\ rng' = (Reseed(rng) + NumProducts) % TapeLen
    /\ np_rng' = NpReseed(np_rng)
    /\ users' = <<>>
    /\ pc' = "generate_users"
    /\ UNCHANGED <<metrics, num_users, num_days, streams, events, user_idx,
                   userLocals, session_num>>

NextRerun == Next \/ CallAgain
SpecRerun == Init /\ [][NextRerun]_vars

\* ------------------------------------------------------------ metric engine
generator == <<num_users, num_days, products, users, tape, rng, np_tape, np_rng,
               user_idx, userLocals, session_num, calls, previous>>

EmptyFrame == [kind |-> "DataFrame", rows |-> <<>>]
Frame(rows) == [kind |-> "DataFrame", rows |-> rows]
Raised(error) == [kind |-> error, rows |-> <<>>]

\* every event is taken for a purchase
PurchaseEvents_all(log) == log
\* events[events['event_type'] == 'purchase']
PurchaseEvents(log) == SelectSeq(log, LAMBDA e : e.event_type = "purchase")
UserIds(log) == {log[i].user_id : i \in 1..Len(log)}
RowsOf(log, uid) == {i \in 1..Len(log) : log[i].user_id = uid}
\* the group keys of groupby('user_id'), sorted
RECURSIVE SortedIds(_)
SortedIds(ids) ==
    IF ids = {} THEN <<>>
    ELSE LET first == CHOOSE x \in ids : \A y \in ids : x[2] <= y[2]
         IN  <<first>> \o SortedIds(ids \ {first})

\* price * quantity of one row; a missing value is skipped by sum()
Amount(e) ==
    IF e.price = None \/ e.quantity = None THEN 0 ELSE e.price[1] * e.quantity[1]
RECURSIVE TotalAmount(_, _)
TotalAmount(log, rows) ==
    IF rows = {} THEN 0
    ELSE LET i == CHOOSE r \in rows : TRUE
         IN  Amount(log[i]) + TotalAmount(log, rows \ {i})
\* (datetime.now() - x.max()).days
Recency(log, rows, now) ==
    LET latest == CHOOSE t \in {log[i].timestamp : i \in rows} :
                      \A i \in rows : log[i].timestamp <= t
    IN  (now - latest) \div Day

\* a column in ascending order
RECURSIVE Ascending(_)
Ascending(column) ==
    IF column = <<>> THEN <<>>
    ELSE LET j == CHOOSE i \in 1..Len(column) :
                      \A k \in 1..Len(column) : column[i] <= column[k]
         IN  <<column[j]>> \o Ascending(SubSeq(column, 1, j - 1)
                                          \o SubSeq(column, j + 1, Len(column)))
\* NumBins times the k/NumBins quantile of a sorted column, linearly
\* interpolated between the two nearest ranks
Quantile(sorted, k) ==
    LET h == (Len(sorted) - 1) * k
        lo == h \div NumBins
        rem == h % NumBins
    IN  IF rem = 0 THEN NumBins * sorted[lo + 1]
        ELSE NumBins * sorted[lo + 1] + rem * (sorted[lo + 2] - sorted[lo + 1])
\* duplicates='raise': the bin edges must be unique
UniqueEdges(edges) == Cardinality({edges[k] : k \in 0..NumBins}) = NumBins + 1
\* the bins are counted from the top edge down
Bin_mirrored(edges, x) ==
    IF NumBins * x = edges[0] THEN NumBins
    ELSE NumBins + 1 - Cardinality({k \in 0..NumBins : edges[k] < NumBins * x})
\* the bin of a value: the lowest edge belongs to the first bin
\* (include_lowest), every other value to the bin whose right edge it reaches
Bin(edges, x) ==
    IF NumBins * x = edges[0] THEN 1
    ELSE Cardinality({k \in 0..NumBins : edges[k] < NumBins * x})
\* pd.qcut(column, q=5, labels=labels)
qcut(column, labels) ==
    LET edges == [k \in 0..NumBins |-> Quantile(Ascending(column), k)]
    IN  IF UniqueEdges(edges)
          THEN [ok |-> TRUE,
                codes |-> [i \in 1..Len(column) |-> labels[Bin(edges, column[i])]]]
          ELSE [ok |-> FALSE, codes |-> <<>>]

\* the top band starts above 13
segment_customers_above(row) ==
    IF row.RFM_score > 13 THEN "Champions"
    ELSE IF row.RFM_score >= 10 THEN "Loyal Customers"
    ELSE IF row.RFM_score >= 8 THEN "At Risk"
    ELSE IF row.RFM_score >= 6 THEN "Can't Lose"
    ELSE "Lost"
segment_customers(row) ==
    IF row.RFM_score >= 13 THEN "Champions"
    ELSE IF row.RFM_score >= 10 THEN "Loyal Customers"
    ELSE IF row.RFM_score >= 8 THEN "At Risk"
    ELSE IF row.RFM_score >= 6 THEN "Can't Lose"
    ELSE "Lost"

\* rfm['segment'] = rfm.apply(segment_customers, axis=1)
Segmented(rows) ==
    [i \in 1..Len(rows) |-> [rows[i] EXCEPT !.segment = segment_customers(rows[i])]]

calculate_rfm_scores(log, now) ==
    LET purchases == PurchaseEvents(log)
        ids == SortedIds(UserIds(purchases))
        n == Len(ids)
        recency == [i \in 1..n |-> Recency(purchases, RowsOf(purchases, ids[i]), now)]
        frequency == [i \in 1..n |-> Cardinality(RowsOf(purchases, ids[i]))]
        monetary == [i \in 1..n |-> TotalAmount(purchases, RowsOf(purchases, ids[i]))]
        R == qcut(recency, <<5, 4, 3, 2, 1>>)
        F == qcut(frequency, <<1, 2, 3, 4, 5>>)
        M == qcut(monetary, <<1, 2, 3, 4, 5>>)
    IN  IF purchases = <<>> THEN EmptyFrame
        ELSE IF ~R.ok \/ ~F.ok \/ ~M.ok THEN Raised("ValueError")
        ELSE Frame(Segmented(
                [i \in 1..n |->
                    [user_id |-> ids[i],
                     recency |-> recency[i],
                     frequency |-> frequency[i],
                     monetary |-> monetary[i],
                     R_score |-> R.codes[i],
                     F_score |-> F.codes[i],
                     M_score |-> M.codes[i],
                     RFM_score |-> R.codes[i] + F.codes[i] + M.codes[i],
                     segment |-> ""]]))

\* the call of calculate_rfm_scores on the page's events
CalculateRfmScores ==
    /\ pc = "rfm"
    /\ \E now \in NowChoices : rfm' = calculate_rfm_scores(events, now)
    /\ pc' = "rfm_done"
    /\ UNCHANGED <<generator, events, user_behavior, dashboard>>

\* line 116 alone, on a frame of scored rows
SegmentCustomers ==
    /\ pc = "scored"
    /\ rfm' = Frame(Segmented(rfm.rows))
    /\ pc' = "segmented"
    /\ UNCHANGED <<generator, events, user_behavior, dashboard>>

\* --- the logs handed to the metric engine
\* one user's events, the log holding `before` events already: a
\* session_start, a product_view, the purchases
EventsOf(u, profile, before) ==
    LET uid == <<"U", u>>
        sid == <<"S", before + 1>>
        t == profile.day * Day + 9 * Hour
        size == IF profile.kind = "absent" THEN 0 ELSE 2 + profile.n
    IN  [k \in 1..size |->
            [(CASE k = 1 -> Event(<<>>, uid, sid, "session_start", t, None, None)
                [] k = 2 -> Event(<<>>, uid, sid, "product_view", t + Minute,
                                  Some(products[NumProducts]), None)
                [] OTHER -> Event(<<>>, uid, sid, "purchase", t + k * Minute,
                                  Some(products[1]), Some(profile.quantity)))
             EXCEPT !.event_id = <<"E", before + k>>]]
RECURSIVE LogOf(_, _)
LogOf(profiles, u) ==
    IF u = 0 THEN <<>>
    ELSE LET log == LogOf(profiles, u - 1)
         IN  log \o EventsOf(u, profiles[u], Len(log))

\* the generator is not part of a metric run: its fields are those of a
\* constructed generator with no user
Constructed ==
    /\ num_users = 0
    /\ num_days \in NumDaysChoices
    /\ tape = [i \in 1..TapeLen |-> 0]
    /\ np_tape = <<>>
    /\ products = generate_products(Reseed(0))
    /\ rng = (Reseed(0) + NumProducts) % TapeLen
    /\ np_rng = NpReseed(0)
    /\ calls = 1
    /\ previous = <<>>
    /\ users = <<>>
    /\ user_idx = 0
    /\ sessions_per_month = 0
    /\ avg_session_length = 0
    /\ purchase_probability = 0
    /\ days_active = 0
    /\ total_sessions = 0
    /\ session_num = 0

InitRFM ==
    /\ Constructed
    /\ \E profiles \in [1..RfmUsers -> RfmProfiles] : events = LogOf(profiles, RfmUsers)
    /\ pc = "rfm"
    /\ rfm = NotComputed
    /\ user_behavior = NotComputed
    /\ NoDashboard
SpecRFM == InitRFM /\ [][CalculateRfmScores]_vars

\* a frame of one scored row, before line 116
InitSegment ==
    /\ Constructed
    /\ events = <<>>
    /\ pc = "scored"
    /\ \E r, f, m \in 1..NumBins :
          rfm = Frame(<<[user_id |-> <<"U", 1>>,
                         recency |-> 0,
                         frequency |-> 1,
                         monetary |-> 0,
                         R_score |-> r,
                         F_score |-> f,
                         M_score |-> m,
                         RFM_score |-> r + f + m,
                         segment |-> ""]>>)
    /\ user_behavior = NotComputed
    /\ NoDashboard
SpecSegment == InitSegment /\ [][SegmentCustomers]_vars

\* --- perform_behavioral_clustering
\* Series.nunique(): the distinct values of a column, missing ones left out
NUnique(log, rows, column) ==
    Cardinality({log[i][column] : i \in rows} \ {None})
\* the feature vector of one user: sessions, events, products, categories,
\* purchase_count, total_spent (the last two 0 for a user without purchase)
Features(log, uid) ==
    LET rows == RowsOf(log, uid)
        bought == {i \in rows : log[i].event_type = "purchase"}
    IN  <<NUnique(log, rows, "session_id"),
          Cardinality(rows),
          NUnique(log, rows, "product_id"),
          NUnique(log, rows, "category"),
          Cardinality(bought),
          TotalAmount(log, bought)>>
cluster_names ==
    [c \in 0..3 |->
        CASE c = 0 -> "Casual Browsers"
          [] c = 1 -> "Active Shoppers"
          [] c = 2 -> "High-Value Customers"
          [] OTHER -> "Occasional Buyers"]
\* .map(cluster_names): a key that is not in the dict maps to a missing value
MapName(c) == IF c \in DOMAIN cluster_names THEN Some(cluster_names[c]) ELSE None

\* What StandardScaler and KMeans do with n samples: the scaler refuses an
\* empty array, KMeans refuses fewer samples than clusters; otherwise
\* fit_predict labels every sample with a cluster of 0..n_clusters-1, equal
\* samples alike (`labels` is that labelling, by feature vector).
perform_behavioral_clustering(log, labels) ==
    LET ids == SortedIds(UserIds(log))
        n == Len(ids)
    IN  IF n = 0 THEN Raised("ValueError")
        ELSE IF n < n_clusters THEN Raised("ValueError")
        ELSE Frame([i \in 1..n |->
                [user_id |-> ids[i],
                 features |-> Features(log, ids[i]),
                 behavioral_cluster |-> labels[Features(log, ids[i])],
                 behavioral_segment |-> MapName(labels[Features(log, ids[i])])]])

\* the call of perform_behavioral_clustering on the page's events
PerformBehavioralClustering ==
    /\ pc = "cluster"
    /\ \E labels \in [{Features(events, uid) : uid \in UserIds(events)}
                          -> 0..(n_clusters - 1)] :
          user_behavior' = perform_behavioral_clustering(events, labels)
    /\ pc' = "cluster_done"
    /\ UNCHANGED <<generator, events, rfm, dashboard>>

InitCluster ==
    /\ Constructed
    /\ \E profiles \in [1..ClusterUsers -> ClusterProfiles] :
          events = LogOf(profiles, ClusterUsers)
    /\ pc = "cluster"
    /\ rfm = NotComputed
    /\ user_behavior = NotComputed
    /\ NoDashboard
SpecCluster == InitCluster /\ [][PerformBehavioralClustering]_vars

\* --------------------------------------------------------------- dashboards
\* A dashboard page runs on the frames load_data returned: the sidebar filters
\* narrow the events, then the page computes its figures.
\* Timestamp.dt.date, in days since start_date
DateOf(t) == t \div Day
Dates(log) == {DateOf(log[i].timestamp) : i \in 1..Len(log)}
Earliest(dates) == CHOOSE d \in dates : \A e \in dates : d <= e
Latest(dates) == CHOOSE d \in dates : \A e \in dates : e <= d
min_date(log) == Earliest(Dates(log))
max_date(log) == Latest(Dates(log))
EventTypesIn(log) == {log[i].event_type : i \in 1..Len(log)}

\* what st.date_input can hold, between min_value and max_value: one date
\* (the range is being picked), the whole span, or one day: a day with
\* events or the day after one
DateInputs(dates, min_value, max_value) ==
    {<<min_value>>, <<min_value, max_value>>}
        \cup {<<d, d>> : d \in (dates \cup {e + 1 : e \in dates})
                                  \cap (min_value..max_value)}
DateRanges(log) == DateInputs(Dates(log), min_date(log), max_date(log))
\* what the event type multiselect can hold: nothing, every type of the log,
\* every type but session_start, session_start and purchase
EventTypeSelections(log) ==
    {{}, EventTypesIn(log), EventTypesIn(log) \ {"session_start"},
     EventTypesIn(log) \cap {"session_start", "purchase"}}
\* "All Categories" and the catalog's categories
CategoryOptions ==
    {"All Categories"} \cup {products[i].category : i \in 1..Len(products)}

\* `if len(date_range) == 2:` the events of the dates start_date..end_date
FilterDates(log, date_range) ==
    IF Len(date_range) = 2
      THEN SelectSeq(log, LAMBDA e : /\ DateOf(e.timestamp) >= date_range[1]
                                     /\ DateOf(e.timestamp) <= date_range[2])
      ELSE log
\* `if event_types:` the events whose type is selected
FilterEventTypes(log, event_types) ==
    IF event_types # {}
      THEN SelectSeq(log, LAMBDA e : e.event_type \in event_types)
      ELSE log
\* `if selected_category != "All Categories":` the events of that category
FilterCategory(log, selected_category) ==
    IF selected_category # "All Categories"
      THEN SelectSeq(log, LAMBDA e : e.category = Some(selected_category))
      ELSE log

\* the session ids of the events of one type: [...]['session_id'].unique()
SessionsWith(log, type) ==
    {log[i].session_id : i \in {j \in 1..Len(log) : log[j].event_type = type}}
\* count / total * 100, in hundredths of a percent
Rate(count, total) == (count * 100 * 100) \div total
Metrics(row) == [kind |-> "metrics", rows |-> <<row>>]

\* has_cart read from the purchase rows
calculate_conversion_metrics_cart_as_purchase(log) ==
    LET sessions == SessionsWith(log, "session_start")
        n_sessions == Cardinality(sessions)
    IN  IF n_sessions = 0 THEN Raised("KeyError")
        ELSE Metrics(
                [total_sessions |-> n_sessions,
                 view_rate |-> Rate(Cardinality(sessions \cap SessionsWith(log, "product_view")),
                                    n_sessions),
                 cart_rate |-> Rate(Cardinality(sessions \cap SessionsWith(log, "purchase")),
                                    n_sessions),
                 purchase_rate |-> Rate(Cardinality(sessions \cap SessionsWith(log, "purchase")),
                                        n_sessions)])
\* calculate_conversion_metrics: one row per session_start session with its
\* has_view, has_cart, has_purchase flags, then the three rates.  Without a
\* session conversion_df is built from an empty list and has no column:
\* conversion_df['has_view'] raises KeyError.
calculate_conversion_metrics(log) ==
    LET sessions == SessionsWith(log, "session_start")
        n_sessions == Cardinality(sessions)
    IN  IF n_sessions = 0 THEN Raised("KeyError")
        ELSE Metrics(
                [total_sessions |-> n_sessions,
                 view_rate |-> Rate(Cardinality(sessions \cap SessionsWith(log, "product_view")),
                                    n_sessions),
                 cart_rate |-> Rate(Cardinality(sessions \cap SessionsWith(log, "add_to_cart")),
                                    n_sessions),
                 purchase_rate |-> Rate(Cardinality(sessions \cap SessionsWith(log, "purchase")),
                                        n_sessions)])

\* the "Conversion Funnel" block of the basic dashboard: the sessions of each
\* stage counted on their own, the rates guarded by `if total_sessions > 0`
funnel(log) ==
    LET n_sessions == Cardinality(SessionsWith(log, "session_start"))
        GuardedRate(count) == IF n_sessions > 0 THEN Rate(count, n_sessions) ELSE 0
    IN  Metrics(
            [total_sessions |-> n_sessions,
             sessions_with_views |-> Cardinality(SessionsWith(log, "product_view")),
             sessions_with_cart |-> Cardinality(SessionsWith(log, "add_to_cart")),
             sessions_with_purchase |-> Cardinality(SessionsWith(log, "purchase")),
             view_rate |-> GuardedRate(Cardinality(SessionsWith(log, "product_view"))),
             cart_rate |-> GuardedRate(Cardinality(SessionsWith(log, "add_to_cart"))),
             purchase_rate |-> GuardedRate(Cardinality(SessionsWith(log, "purchase")))])

Selected(page, date_range, event_types, selected_category) ==
    [kind |-> page,
     rows |-> <<[date_range |-> date_range,
                 event_types |-> event_types,
                 selected_category |-> selected_category]>>]

\* the advanced dashboard, "Conversion Analysis": the date filter, then
\* calculate_conversion_metrics(filtered_events)
ConversionAnalysis ==
    /\ pc = "loaded"
    /\ \E date_range \in DateRanges(events) :
          /\ selection' = Selected("advanced", date_range, {}, "All Categories")
          /\ conversion_metrics' = calculate_conversion_metrics(FilterDates(events, date_range))
    /\ pc' = "conversion_done"
    /\ UNCHANGED <<generator, events, rfm, user_behavior, funnel_data>>

\* the basic dashboard: the date, event type and category filters, then the
\* funnel if anything is left, the warning otherwise
BasicFunnel ==
    /\ pc = "loaded"
    /\ \E date_range \in DateRanges(events),
          event_types \in EventTypeSelections(events),
          selected_category \in CategoryOptions :
          /\ selection' = Selected("basic", date_range, event_types, selected_category)
          /\ \E filtered_events \in
                    {FilterCategory(FilterEventTypes(FilterDates(events, date_range),
                                                     event_types),
                                    selected_category)} :
                funnel_data' = IF filtered_events # <<>> THEN funnel(filtered_events)
                                                       ELSE Raised("warning")
    /\ pc' = "funnel_done"
    /\ UNCHANGED <<generator, events, rfm, user_behavior, conversion_metrics>>

NextDashboard == Next \/ ConversionAnalysis \/ BasicFunnel
SpecDashboard == Init /\ [][NextDashboard]_vars
\* the generator followed by the advanced dashboard alone
NextAdvanced == Next \/ ConversionAnalysis
SpecAdvanced == Init /\ [][NextAdvanced]_vars

\* ------------------------------------------------------- views of the log
Returned == pc = "done"
Positions == 1..Len(events)
SessionIds == {events[i].session_id : i \in Positions}
\* positions of the events of one session, of one kind
Of(sid) == {i \in Positions : events[i].session_id = sid}
OfKind(sid, type) ==
    {i \in Positions : events[i].session_id = sid /\ events[i].event_type = type}
ProductIds(sid, type) == {events[i].product_id : i \in OfKind(sid, type)}
\* the same within the positions of one session
KindIn(block, type) == {i \in block : events[i].event_type = type}
ProductsIn(block, type) == {events[i].product_id : i \in KindIn(block, type)}
SessionsOfUser(uid) ==
    {events[i].session_id : i \in {j \in Positions : events[j].user_id = uid}}
Rank(type) ==
    CASE type = "session_start" -> 1
      [] type = "product_view" -> 2
      [] type = "add_to_cart" -> 3
      [] type = "purchase" -> 4
      [] OTHER -> 5
\* the session loop of the current user has run to its end
UserFinished == pc = "session" /\ session_num >= total_sessions

\* ------------------------------------------------------------------ claims
\* C1: in a returned log the events of every session run session_start,
\* product_view*, add_to_cart*, purchase*, session_end (one start, one end, no
\* kind after a later kind) and every event of a session is strictly later
\* than the session's previous event.
C1_SessionOrder ==
    Returned =>
        \A sid \in SessionIds : \A block \in {Of(sid)} :
            /\ Cardinality(KindIn(block, "session_start")) = 1
            /\ Cardinality(KindIn(block, "session_end")) = 1
            /\ \A i, j \in block :
                    i < j => /\ Rank(events[i].event_type) <= Rank(events[j].event_type)
                             /\ events[i].timestamp < events[j].timestamp
\* a returned log holding a session with views, cart adds and purchases
C1_Witness ==
    /\ Returned
    /\ \E sid \in SessionIds :
            /\ Cardinality(OfKind(sid, "product_view")) >= 2
            /\ Cardinality(OfKind(sid, "add_to_cart")) >= 2
            /\ OfKind(sid, "purchase") # {}

\* C2: in every session the purchased product ids are among the carted ones,
\* and the carted ones among the viewed ones.
C2_Containment ==
    Returned =>
        \A sid \in SessionIds : \A block \in {Of(sid)} :
            /\ ProductsIn(block, "purchase") \subseteq ProductsIn(block, "add_to_cart")
            /\ ProductsIn(block, "add_to_cart") \subseteq ProductsIn(block, "product_view")
\* a session that viewed two products, put one in the cart and bought it
C2_Witness ==
    /\ Returned
    /\ \E sid \in SessionIds :
            /\ Cardinality(ProductIds(sid, "product_view")) = 2
            /\ Cardinality(ProductIds(sid, "add_to_cart")) = 1
            /\ Cardinality(ProductIds(sid, "purchase")) = 1

\* C3: no user ever has more than 20 sessions in the log.
C3_SessionCap ==
    \A u \in 1..Len(users) : Cardinality(SessionsOfUser(users[u].user_id)) <= 20
\* a user whose uncapped session count exceeds 20 ended with exactly 20
C3_Witness ==
    /\ UserFinished
    /\ (days_active * sessions_per_month) \div 30 > 20
    /\ Cardinality(SessionsOfUser(users[user_idx].user_id)) = 20

C5_Deterministic ==
    (calls >= 2 /\ Returned) => events = previous
\* a second call that returned a log with a purchase in it
C5_Witness ==
    /\ calls >= 2
    /\ Returned
    /\ \E i \in Positions : events[i].event_type = "purchase"

\* the purchasers of the log handed to calculate_rfm_scores, and their raw
\* metrics
HasPurchase == \E i \in Positions : events[i].event_type = "purchase"
Purchasers == UserIds(PurchaseEvents(events))
PurchasesBy(uid) == RowsOf(PurchaseEvents(events), uid)
Recencies(now) == {Recency(PurchaseEvents(events), PurchasesBy(uid), now) : uid \in Purchasers}
Frequencies == {Cardinality(PurchasesBy(uid)) : uid \in Purchasers}
Monetaries == {TotalAmount(PurchaseEvents(events), PurchasesBy(uid)) : uid \in Purchasers}
RfmReturned == pc = "rfm_done"

\* C6: for a log with at least one purchase calculate_rfm_scores returns, for
\* every purchaser, R_score, F_score and M_score in 1..5 and RFM_score their
\* sum, in 3..15.
C6_ScoresInRange ==
    (RfmReturned /\ HasPurchase) =>
        /\ rfm.kind = "DataFrame"
        /\ \A uid \in Purchasers :
              \E i \in 1..Len(rfm.rows) :
                  /\ rfm.rows[i].user_id = uid
                  /\ rfm.rows[i].R_score \in 1..5
                  /\ rfm.rows[i].F_score \in 1..5
                  /\ rfm.rows[i].M_score \in 1..5
                  /\ rfm.rows[i].RFM_score
                        = rfm.rows[i].R_score + rfm.rows[i].F_score + rfm.rows[i].M_score
                  /\ rfm.rows[i].RFM_score \in 3..15

\* C7: the segment label follows from RFM_score alone, by the bands >= 13
\* Champions, 10..12 Loyal Customers, 8..9 At Risk, 6..7 Can't Lose, <= 5 Lost.
C7_Bands ==
    pc = "segmented" =>
        \A i \in 1..Len(rfm.rows) :
            LET score == rfm.rows[i].RFM_score
                label == rfm.rows[i].segment
            IN  /\ score >= 13 => label = "Champions"
                /\ score \in 10..12 => label = "Loyal Customers"
                /\ score \in 8..9 => label = "At Risk"
                /\ score \in 6..7 => label = "Can't Lose"
                /\ score <= 5 => label = "Lost"
\* a row on the lower edge of the top band, labelled
C7_Witness ==
    /\ pc = "segmented"
    /\ rfm.rows[1].RFM_score = 13
    /\ rfm.rows[1].segment = "Champions"

\* C8: when the purchasers have fewer than 5 distinct values of recency, of
\* frequency or of monetary, calculate_rfm_scores still returns scored rows.
C8_Degrades ==
    (/\ RfmReturned
     /\ HasPurchase
     /\ \/ \A now \in NowChoices : Cardinality(Recencies(now)) < 5
        \/ Cardinality(Frequencies) < 5
        \/ Cardinality(Monetaries) < 5) =>
        /\ rfm.kind = "DataFrame"
        /\ rfm.rows # <<>>

\* C9: for a log without any purchase event, the empty log included,
\* calculate_rfm_scores returns the empty frame and raises nothing.
C9_NoPurchases ==
    (RfmReturned /\ \A i \in Positions : events[i].event_type # "purchase") =>
        rfm = EmptyFrame
\* a log with events but no purchase, scored to the empty frame
C9_Witness ==
    /\ RfmReturned
    /\ events # <<>>
    /\ \A i \in Positions : events[i].event_type # "purchase"
    /\ rfm = EmptyFrame

\* C10: handed a log with events of fewer than 4 distinct users, none
\* included, perform_behavioral_clustering returns a frame (empty or partial)
\* and raises nothing.
C10_FewUsers ==
    (pc = "cluster_done" /\ Cardinality(UserIds(events)) < 4) =>
        user_behavior.kind = "DataFrame"

\* the events the dashboard run in `selection` computed its figures from
FilteredEvents ==
    FilterCategory(FilterEventTypes(FilterDates(events, selection.rows[1].date_range),
                                    selection.rows[1].event_types),
                   selection.rows[1].selected_category)
InPercent(rate) == 0 <= rate /\ rate <= 100 * 100

\* C11: whatever the generated log and whatever the filters, every funnel
\* rate of calculate_conversion_metrics and of the basic dashboard's funnel
\* lies between 0 and 100 percent.
C11_RatesInRange ==
    /\ pc = "conversion_done" =>
          /\ conversion_metrics.kind = "metrics"
          /\ InPercent(conversion_metrics.rows[1].view_rate)
          /\ InPercent(conversion_metrics.rows[1].cart_rate)
          /\ InPercent(conversion_metrics.rows[1].purchase_rate)
    /\ (pc = "funnel_done" /\ funnel_data.kind = "metrics") =>
          /\ InPercent(funnel_data.rows[1].view_rate)
          /\ InPercent(funnel_data.rows[1].cart_rate)
          /\ InPercent(funnel_data.rows[1].purchase_rate)

\* C12: handed events without any session_start, calculate_conversion_metrics
\* returns the three rates as 0 and raises nothing.
C12_NoSessions ==
    (pc = "conversion_done" /\ SessionsWith(FilteredEvents, "session_start") = {}) =>
        /\ conversion_metrics.kind = "metrics"
        /\ conversion_metrics.rows[1].view_rate = 0
        /\ conversion_metrics.rows[1].cart_rate = 0
        /\ conversion_metrics.rows[1].purchase_rate = 0

\* the users with at least one event in the log handed to the clustering
ClusterLabels ==
    {"Casual Browsers", "Active Shoppers", "High-Value Customers", "Occasional Buyers"}
ProfilesOf(uid) ==
    {i \in 1..Len(user_behavior.rows) : user_behavior.rows[i].user_id = uid}
\* one profile per user of the log and no other, each with a cluster of 0..3
\* and one of the four labels
OneProfileEach ==
    /\ \A uid \in UserIds(events) : Cardinality(ProfilesOf(uid)) = 1
    /\ \A i \in 1..Len(user_behavior.rows) :
          /\ user_behavior.rows[i].user_id \in UserIds(events)
          /\ user_behavior.rows[i].behavioral_cluster \in 0..3
          /\ \E label \in ClusterLabels :
                user_behavior.rows[i].behavioral_segment = Some(label)

\* C13: perform_behavioral_clustering returns exactly one profile per user
\* with an event in the log, each with a cluster index of 0..3 mapped to one
\* of the four fixed labels, never to a missing one.
C13_Profiles ==
    pc = "cluster_done" =>
        /\ user_behavior.kind = "DataFrame"
        /\ OneProfileEach

\* self.end_date = self.start_date + timedelta(days=num_days)
end_date == num_days * Day

\* C14: every generated user is registered no later than end_date, whatever
\* the window length and the segment.
C14_RegisteredInWindow ==
    \A u \in 1..Len(users) : users[u].registration_date <= end_date

\* C15: event ids are pairwise distinct and strictly increasing in log order:
\* the event at position i carries ordinal i, after any number of users and
\* sessions.
C15_EventIds ==
    Returned =>
        /\ \A i \in Positions : events[i].event_id = <<"E", i>>
        /\ \A i \in Positions \ {1} : events[i - 1].event_id[2] < events[i].event_id[2]
        /\ Cardinality({events[i].event_id : i \in Positions}) = Len(events)
\* a returned log with several sessions of two users
C15_Witness ==
    /\ Returned
    /\ Cardinality(UserIds(events)) >= 2
    /\ \A uid \in UserIds(events) : Cardinality(SessionsOfUser(uid)) >= 2

Starts == {i \in Positions : events[i].event_type = "session_start"}
\* C16: two sessions never share a session id, the events from a
\* session_start to its session_end carry that session's id, and all events
\* of one session id carry the same user id.
C16_SessionIds ==
    Returned =>
        /\ Cardinality({events[i].session_id : i \in Starts}) = Cardinality(Starts)
        /\ \A i \in Positions :
              IF events[i].event_type = "session_start"
                THEN i > 1 => events[i - 1].event_type = "session_end"
                ELSE /\ i > 1
                     /\ events[i - 1].event_type # "session_end"
                     /\ events[i].session_id = events[i - 1].session_id
        /\ \A sid \in SessionIds :
              Cardinality({events[i].user_id : i \in Of(sid)}) = 1
\* a returned log in which two users have two sessions or more each
C16_Witness ==
    /\ Returned
    /\ \E u, v \in UserIds(events) :
          /\ u # v
          /\ Cardinality(SessionsOfUser(u)) >= 2
          /\ Cardinality(SessionsOfUser(v)) >= 2
          /\ Cardinality(SessionsOfUser(u) \cup SessionsOfUser(v))
                = Cardinality(SessionsOfUser(u)) + Cardinality(SessionsOfUser(v))

\* the catalog entry an event refers to, by id, category and price
InCatalog(e) ==
    \E p \in 1..Len(products) :
        /\ e.product_id = Some(products[p].product_id)
        /\ e.category = Some(products[p].category)
        /\ e.price = Some(products[p].price)
\* C17: every event's user is a generated user; a product_view, add_to_cart
\* or purchase refers to a catalog product with that product's category and
\* price; session_start and session_end carry no product, category, price
\* or quantity, and product_view carries no quantity.
C17_References ==
    Returned =>
        \A i \in Positions :
            /\ \E u \in 1..Len(users) : events[i].user_id = users[u].user_id
            /\ events[i].event_type \in {"product_view", "add_to_cart", "purchase"}
                  => InCatalog(events[i])
            /\ events[i].event_type \in {"session_start", "session_end"}
                  => /\ events[i].product_id = None
                     /\ events[i].category = None
                     /\ events[i].price = None
                     /\ events[i].quantity = None
            /\ events[i].event_type = "product_view" => events[i].quantity = None
\* a returned log with a view, a cart add and a purchase of the catalog's
\* last product
C17_Witness ==
    /\ Returned
    /\ \A type \in {"product_view", "add_to_cart", "purchase"} :
          \E i \in Positions :
              /\ events[i].event_type = type
              /\ events[i].product_id = Some(products[NumProducts].product_id)

\* C18: with a zero population generation yields an empty event log and
\* raises no error, in generate_user_events and in the generate_sample_data
\* pipeline around it.
C18_EmptyLog ==
    num_users = 0 =>
        /\ events = <<>>
        /\ pc # "KeyError"

\* C19: a generator constructed with a negative num_users fails at
\* construction, before any user or event is generated.
C19_FailFast ==
    num_users < 0 =>
        /\ pc = "ConfigurationError"
        /\ users = <<>>
        /\ events = <<>>

\* C20: in every session the add_to_cart events number 1 or 2 and never more
\* than the distinct products viewed, no product is in two add_to_cart events
\* of the session, and each add_to_cart quantity is in 1..3.
C20_Cart ==
    Returned =>
        \A sid \in SessionIds :
            /\ Cardinality(OfKind(sid, "add_to_cart")) \in 1..2
            /\ Cardinality(OfKind(sid, "add_to_cart"))
                  <= Cardinality(ProductIds(sid, "product_view"))
            /\ Cardinality(ProductIds(sid, "add_to_cart"))
                  = Cardinality(OfKind(sid, "add_to_cart"))
            /\ \A i \in OfKind(sid, "add_to_cart") :
                  \E q \in 1..3 : events[i].quantity = Some(q)

\* the session GenerateSession is about to append, up to its cart, and the
\* purchase trial it then makes: random.random() < purchase_probability
Carted ==
    SampleCart(BrowseProducts(SessionStart(events, users[user_idx], days_active),
                              avg_session_length))
TrialSucceeds == random_below(Draw(Carted.at), purchase_probability)
\* the events a step appends to the log
Appended == SubSeq(events', Len(events) + 1, Len(events'))
CountOf(seq, type) == Cardinality({i \in 1..Len(seq) : seq[i].event_type = type})

\* C21: a session with v product_view and c add_to_cart events whose purchase
\* trial fails appends exactly 2 + v + c events and no purchase; when the trial
\* succeeds it appends 2 + v + c + p events with 1 <= p <= c.
C21_SessionSize ==
    [][(pc = "session" /\ session_num' = session_num + 1) =>
          \E appended \in {Appended} :
              \E v \in {CountOf(appended, "product_view")},
                 c \in {CountOf(appended, "add_to_cart")},
                 p \in {CountOf(appended, "purchase")} :
                  IF TrialSucceeds
                    THEN Len(appended) = 2 + v + c + p /\ 1 <= p /\ p <= c
                    ELSE Len(appended) = 2 + v + c /\ p = 0]_vars
\* a returned log with a session of 3 views, 2 cart adds and no purchase, 7
\* events in all, and a session with a purchase
C21_Witness ==
    /\ Returned
    /\ \E sid \in SessionIds :
          /\ Cardinality(OfKind(sid, "product_view")) = 3
          /\ Cardinality(OfKind(sid, "add_to_cart")) = 2
          /\ OfKind(sid, "purchase") = {}
          /\ Cardinality(Of(sid)) = 7
    /\ \E sid \in SessionIds : OfKind(sid, "purchase") # {}

\* the position of a user in the input user list
UserIndex(uid) == CHOOSE u \in 1..Len(users) : users[u].user_id = uid
\* the positions at which the log passes to another session, another user
SessionChanges == {i \in 2..Len(events) : events[i].session_id # events[i - 1].session_id}
UserChanges == {i \in 2..Len(events) : events[i].user_id # events[i - 1].user_id}
\* the events of a session are contiguous, the events of a user are
\* contiguous, and the users come in the order of the user list
Grouped ==
    events # <<>> =>
        /\ Cardinality(SessionChanges) + 1 = Cardinality(SessionIds)
        /\ Cardinality(UserChanges) + 1 = Cardinality(UserIds(events))
        /\ \A i \in 2..Len(events) :
              UserIndex(events[i - 1].user_id) <= UserIndex(events[i].user_id)

\* C22: the log only grows by appending (no event emitted is modified,
\* removed or reordered), and in the returned log the events of a session are
\* contiguous, the events of a user are contiguous and the users come in the
\* order of the user list; timestamps need not be ordered across sessions.
C22_AppendOnly ==
    [][/\ Len(events) <= Len(events')
       /\ SubSeq(events', 1, Len(events)) = events
       /\ pc' = "done" => Grouped']_vars
\* a returned log of two users with two sessions or more each, in which a
\* session of a user starts before the session logged just before it
C22_Witness ==
    /\ Returned
    /\ \A uid \in UserIds(events) : Cardinality(SessionsOfUser(uid)) >= 2
    /\ Cardinality(UserIds(events)) >= 2
    /\ \E i \in 2..Len(events) :
          /\ events[i].event_type = "session_start"
          /\ events[i].user_id = events[i - 1].user_id
          /\ events[i].timestamp < events[i - 1].timestamp

\* price * quantity summed over the purchase events of one user among the
\* first n events of the log
RECURSIVE SpentUpTo(_, _)
SpentUpTo(uid, n) ==
    IF n = 0 THEN 0
    ELSE SpentUpTo(uid, n - 1)
            + (IF events[n].event_type = "purchase" /\ events[n].user_id = uid
                 THEN events[n].price[1] * events[n].quantity[1]
                 ELSE 0)
PurchaseCount(uid) ==
    Cardinality({i \in Positions : events[i].event_type = "purchase"
                                      /\ events[i].user_id = uid})
\* one record per purchaser and no other, with the purchaser's own purchase
\* count and spending
OneRecordEach ==
    /\ Len(rfm.rows) = Cardinality(Purchasers)
    /\ \A uid \in Purchasers :
          \E i \in 1..Len(rfm.rows) :
              /\ rfm.rows[i].user_id = uid
              /\ rfm.rows[i].frequency = PurchaseCount(uid)
              /\ rfm.rows[i].monetary = SpentUpTo(uid, Len(events))

\* C23: calculate_rfm_scores returns exactly one record per user with a
\* purchase event, whose frequency is the number of the user's purchase
\* events and whose monetary is the sum of price * quantity over exactly
\* those events.
C23_RawMetrics ==
    (RfmReturned /\ HasPurchase) =>
        /\ rfm.kind = "DataFrame"
        /\ OneRecordEach

TimeOfDay(t) == t % Day
LastStart == 22 * Hour + 59 * Minute + 59
\* the length of a session, from its session_start to its session_end
Duration(block) ==
    events[CHOOSE j \in block : events[j].event_type = "session_end"].timestamp
        - events[CHOOSE i \in block : events[i].event_type = "session_start"].timestamp
\* the session ids a date range keeps
SessionIdsOf(log) == {log[k].session_id : k \in 1..Len(log)}
KeptSessions(date_range) == SessionIdsOf(FilterDates(events, date_range))
\* the events of the log that belong to the sessions in `kept`
EventsIn(kept) == {i \in Positions : events[i].session_id \in kept}

\* C25: every session lasts between 3 and 55 minutes and starts at or before
\* 22:59:59, so all its events fall on one calendar date, and a date-range
\* filter keeps or drops each session as a whole.
C25_WholeSessions ==
    Returned =>
        /\ \A sid \in SessionIds : \A block \in {Of(sid)} :
              /\ Duration(block) >= 3 * Minute
              /\ Duration(block) <= 55 * Minute
              /\ \A i \in KindIn(block, "session_start") :
                    /\ TimeOfDay(events[i].timestamp) <= LastStart
                    /\ \A j \in block :
                          DateOf(events[i].timestamp) = DateOf(events[j].timestamp)
        /\ events # <<>> =>
              \A date_range \in DateRanges(events) :
                  \A filtered \in {FilterDates(events, date_range)} :
                      Len(filtered) = Cardinality(EventsIn(SessionIdsOf(filtered)))
\* a session that starts at 22:59:59 and lasts 40 minutes or more, in a log
\* with a date range that drops it and keeps another session
C25_Witness ==
    /\ Returned
    /\ \E sid \in SessionIds :
          /\ \E i \in OfKind(sid, "session_start") :
                TimeOfDay(events[i].timestamp) = LastStart
          /\ Duration(Of(sid)) >= 40 * Minute
          /\ \E date_range \in DateRanges(events) :
                /\ sid \notin KeptSessions(date_range)
                /\ KeptSessions(date_range) # {}

RegistrationOf(uid) == users[UserIndex(uid)].registration_date

\* C26 as stated: every event's timestamp is not earlier than the user's
\* registration_date and not later than end_date.
C26_InWindow ==
    Returned =>
        \A i \in Positions :
            /\ RegistrationOf(events[i].user_id) <= events[i].timestamp
            /\ events[i].timestamp <= end_date
\* C26 as amended: every event's timestamp is not earlier than the user's
\* registration_date and falls on a calendar date not later than end_date's;
\* it is the session date, within registration_date..end_date, plus a time
\* of day, so it can be later than end_date itself by up to a day.
C26_DateInWindow ==
    Returned =>
        \A i \in Positions :
            /\ RegistrationOf(events[i].user_id) <= events[i].timestamp
            /\ DateOf(events[i].timestamp) <= DateOf(end_date)
            /\ events[i].timestamp < end_date + Day
\* a returned log with an event on end_date's calendar date, later than
\* end_date
C26_Witness ==
    /\ Returned
    /\ \E i \in Positions :
          /\ events[i].timestamp > end_date
          /\ DateOf(events[i].timestamp) = DateOf(end_date)

\* C27: every generated session holds a product_view and an add_to_cart, so
\* on a generated log filtered by date range only,
\* calculate_conversion_metrics reports view_rate = cart_rate = 100 and
\* cart_rate >= purchase_rate whenever the filtered log has a session.
C27_FullFunnel ==
    /\ Returned =>
          \A sid \in SessionIds :
              \A block \in {Of(sid)} :
                  KindIn(block, "product_view") # {} /\ KindIn(block, "add_to_cart") # {}
    /\ (pc = "conversion_done" /\ SessionsWith(FilteredEvents, "session_start") # {}) =>
          /\ selection.rows[1].event_types = {}
          /\ selection.rows[1].selected_category = "All Categories"
          /\ conversion_metrics.kind = "metrics"
          /\ conversion_metrics.rows[1].total_sessions > 0
          /\ conversion_metrics.rows[1].view_rate = 100 * 100
          /\ conversion_metrics.rows[1].cart_rate = 100 * 100
          /\ conversion_metrics.rows[1].purchase_rate <= conversion_metrics.rows[1].cart_rate
\* a date range that keeps some sessions and drops others, and a purchase
\* rate strictly between 0 and 100
C27_Witness ==
    /\ pc = "conversion_done"
    /\ conversion_metrics.kind = "metrics"
    /\ conversion_metrics.rows[1].total_sessions < Cardinality(SessionsWith(events, "session_start"))
    /\ conversion_metrics.rows[1].view_rate = 100 * 100
    /\ conversion_metrics.rows[1].purchase_rate > 0
    /\ conversion_metrics.rows[1].purchase_rate < 100 * 100

\* C28: in the basic dashboard's funnel, whatever the date range, the event
\* types and the category selected, the counts of sessions with product
\* views, with cart adds and with purchases never exceed total_sessions.
C28_StageCounts ==
    (pc = "funnel_done" /\ funnel_data.kind = "metrics") =>
        /\ funnel_data.rows[1].sessions_with_views <= funnel_data.rows[1].total_sessions
        /\ funnel_data.rows[1].sessions_with_cart <= funnel_data.rows[1].total_sessions
        /\ funnel_data.rows[1].sessions_with_purchase <= funnel_data.rows[1].total_sessions

====
